---- MODULE Spec2Model ----
(***************************************************************************)
(* OCRContractTracker (core/eth/types.go, package offchainreporting):      *)
(* lifecycle (Start/Close), the processLogs forwarding goroutine, HandleLog *)
(* and the configuration mailbox, as a state machine.                      *)
(***************************************************************************)
EXTENDS Integers, Sequences, FiniteSets, TLC

(* ------------------------------ bounds ------------------------------- *)
NumCallers == 2       \* goroutines that call Start / Close
NumHandlers == 2      \* broadcaster goroutines that call HandleLog
MaxCalls == 2         \* HandleLog invocations in a behaviour of Spec
MaxLogCalls == 2      \* HandleLog invocations in a behaviour of LogSpec
MaxEpoch == 1         \* epochs 0..MaxEpoch
MaxRound == 1         \* rounds 0..MaxRound
MaxDigest == 2        \* config digests 1..MaxDigest
MaxCapacity == 2      \* mailbox capacities 1..MaxCapacity in MailboxSpec
MaxOps == 5           \* Deliver / Retrieve calls in a behaviour of MailboxSpec
ExtraCalls == 2       \* FullSpec: invocations beyond the mailbox capacity
MaxByte == 1          \* byte (and topic hash) values 0..MaxByte
MaxAryLen == 2        \* UntrustedBytes of length 0..MaxAryLen
MaxLogLen == 1        \* Log.Topics and Log.Data of length 0..MaxLogLen

(* ------------------------- program constants ------------------------- *)
configMailboxSanityLimit == 100
FunctionSelectorLength == 4

Callers == 1..NumCallers
Handlers == 1..NumHandlers
Epochs == 0..MaxEpoch
Rounds == 0..MaxRound
Digests == 1..MaxDigest

ContractAddress == "tracked"
Addresses == {ContractAddress, "other"}

OCRContractConfigSet == "ConfigSet"
OCRContractLatestRoundRequested == "RoundRequested"

\* x == nil, the none-value of Mailbox.Retrieve
Nil == [ConfigDigest |-> 0, nil |-> TRUE]

\* confighelper.ContractConfigFromConfigSetEvent: the config a ConfigSet
\* event projects to, known here by its digest.
ContractConfig(d) == [ConfigDigest |-> d, nil |-> FALSE]

\* offchainaggregator.OffchainAggregatorRoundRequested, zero-valued at first
ZeroRoundRequested == [ConfigDigest |-> 0, Epoch |-> 0, Round |-> 0]

NoLog == [Address |-> "none", Topics |-> <<>>, Removed |-> FALSE, parse |-> FALSE,
          ConfigDigest |-> 0, Epoch |-> 0, Round |-> 0]

(* ------------- the logs the broadcaster may hand to HandleLog --------- *)
\* parse: whether the decode layer (ParseConfigSet / ParseRoundRequested)
\* accepts the raw log.
MkLog(a, t, r, p, d, e, n) ==
    [Address |-> a, Topics |-> t, Removed |-> r, parse |-> p,
     ConfigDigest |-> d, Epoch |-> e, Round |-> n]

\* A log of the tracked contract that decodes, and the logs that depart from
\* it in one respect: another contract's address, removed by a
\* reorganisation, or a payload the decode layer rejects.
Variants(l) ==
    {l, [l EXCEPT !.Address = "other"], [l EXCEPT !.Removed = TRUE],
     MkLog(l.Address, l.Topics, FALSE, FALSE, 0, 0, 0)}

ConfigSetLogs ==
    UNION {Variants(MkLog(ContractAddress, <<OCRContractConfigSet>>, FALSE, TRUE, d, 0, 0)) :
              d \in Digests}

RoundRequestedLogs ==
    UNION {Variants(MkLog(ContractAddress, <<OCRContractLatestRoundRequested>>,
                          FALSE, TRUE, 1, x[1], x[2])) : x \in Epochs \X Rounds}

OtherLogs ==
    {MkLog(ContractAddress, <<"Other">>, FALSE, TRUE, 0, 0, 0),
     MkLog(ContractAddress, <<>>, FALSE, TRUE, 0, 0, 0)}

\* LogSpec: every kind of log
AllLogs == ConfigSetLogs \cup RoundRequestedLogs \cup OtherLogs

\* Spec: a configuration change and a round request of the tracked contract
FewLogs ==
    {MkLog(ContractAddress, <<OCRContractConfigSet>>, FALSE, TRUE, 1, 0, 0),
     MkLog(ContractAddress, <<OCRContractLatestRoundRequested>>, FALSE, TRUE, 1, 1, 1)}

\* FullSpec: one configuration change, redelivered while it stays unmarked
OneLog == {MkLog(ContractAddress, <<OCRContractConfigSet>>, FALSE, TRUE, 1, 0, 0)}

\* FullSpec: a few logs of several kinds
MixedLogs ==
    {MkLog(ContractAddress, <<OCRContractConfigSet>>, FALSE, TRUE, 1, 0, 0),
     MkLog(ContractAddress, <<OCRContractLatestRoundRequested>>, FALSE, TRUE, 1, 1, 1),
     MkLog("other", <<OCRContractConfigSet>>, FALSE, TRUE, 1, 0, 0),
     MkLog(ContractAddress, <<"Other">>, FALSE, TRUE, 0, 0, 0)}

\* FlowSpec, StopSpec: the configuration changes and a round request
FlowLogs ==
    {MkLog(ContractAddress, <<OCRContractConfigSet>>, FALSE, TRUE, d, 0, 0) : d \in Digests}
    \cup {MkLog(ContractAddress, <<OCRContractLatestRoundRequested>>, FALSE, TRUE, 1, 1, 1)}

\* RedeliverySpec: round requests of every config digest, epoch and round
RequestLogs ==
    {MkLog(ContractAddress, <<OCRContractLatestRoundRequested>>, FALSE, TRUE, d, e, n) :
        d \in Digests, e \in Epochs, n \in Rounds}

\* ReadSpec: round requests of every config digest and epoch, the round
\* that of the epoch
ReadLogs ==
    {MkLog(ContractAddress, <<OCRContractLatestRoundRequested>>, FALSE, TRUE, d, e, e) :
        d \in Digests, e \in Epochs}

\* the logs the broadcaster hands over, by the name it holds for them
LogPool(name) ==
    CASE name = "AllLogs" -> AllLogs
      [] name = "FewLogs" -> FewLogs
      [] name = "OneLog" -> OneLog
      [] name = "MixedLogs" -> MixedLogs
      [] name = "FlowLogs" -> FlowLogs
      [] name = "RedeliveryLogs" -> RequestLogs \cup OneLog
      [] name = "ReadLogs" -> ReadLogs
      [] OTHER -> {}

(* ------------------------------ state -------------------------------- *)
VARIABLES
    state,                  \* utils.StartStopOnce
    registered,             \* logBroadcaster holds this tracker as a listener
    chStop,                 \* "open" | "closed"
    chConfigs,              \* "open" | "closed"
    wg,                     \* sync.WaitGroup counter
    loop,                   \* the processLogs goroutine: [pc, cc]
    configsMB,              \* utils.Mailbox: [queue, chNotify, capacity]
    latestRoundRequested,   \* [ConfigDigest, Epoch, Round]
    lrrMu,                  \* 0, or the handler holding the write lock
    consumed,               \* broadcaster: logs marked consumed
    handlers,               \* HandleLog invocations: [pc, log, was, res]
    callers,                \* Start / Close invocations: [pc, ret]
    panicked,               \* "no", or the runtime panic that ended the process
    broadcaster,            \* what it will do: [logs, errs, markErrs, budget]
    reader,                 \* a LatestRoundRequested call: [pc, locked, result fields]
    \* history
    spawned,                \* processLogs goroutines spawned so far
    closeCall,              \* "none", or where the loop was when Close was let in
    closeRet,               \* successful Close calls that have returned
    delivered,              \* configs handed to configsMB.Deliver, in order
    sent,                   \* configs received by the consumer, in order
    retrieved,              \* MailboxSpec: results of Retrieve, in order
    \* package eth: callers of the functions on selectors, bytes and logs
    fsel,                   \* a FunctionSelector stored with Value, read with Scan
    ubytes,                 \* a call of UntrustedBytes.SafeByteSlice
    mem                     \* a Log, its Copy, and the arrays their slices point to

libVars == <<fsel, ubytes, mem>>

vars == <<state, registered, chStop, chConfigs, wg, loop, configsMB,
          latestRoundRequested, lrrMu, consumed, handlers, callers, panicked,
          broadcaster, reader, spawned, closeCall, closeRet, delivered, sent,
          retrieved, fsel, ubytes, mem>>

lifecycleVars == <<state, registered, chStop, chConfigs, wg, spawned, closeCall, closeRet>>
handlerVars == <<latestRoundRequested, lrrMu, consumed, handlers, broadcaster, reader>>
flowVars == <<configsMB, delivered, sent, retrieved>>

(* ------------------- package eth: FunctionSelector -------------------- *)
Bytes == 0..MaxByte

\* the byte strings of length n
ByteStrings(n) == [1..n -> Bytes]

\* type FunctionSelector [FunctionSelectorLength]byte, and its zero value
FunctionSelectors == ByteStrings(FunctionSelectorLength)
ZeroSelector == [i \in 1..FunctionSelectorLength |-> 0]

\* A driver.Value / interface{}: a []byte, or a value of another type.
BytesValue(b) == [isBytes |-> TRUE, bytes |-> b]
NotBytesValue == [isBytes |-> FALSE, bytes |-> <<>>]

\* what a database column may hold: byte strings of up to
\* FunctionSelectorLength + 1 bytes, and a value that is no []byte
StoredValues ==
    {BytesValue(b) : b \in UNION {ByteStrings(n) : n \in 0..(FunctionSelectorLength + 1)}}
    \cup {NotBytesValue}

\* func (f FunctionSelector) Value(): f.Bytes(), nil
Value(f) == [value |-> BytesValue(f), err |-> FALSE]

\* func (f FunctionSelector) Scan(value interface{}) error, called on the
\* caller's selector f. The receiver is passed by value: recv is the method's
\* own copy of f, which copy(f[:], temp) writes to and which is dropped at
\* return; f is the caller's selector after the call.
Scan(f, value) ==
    IF ~value.isBytes THEN [f |-> f, recv |-> f, err |-> TRUE]
    ELSE IF Len(value.bytes) # FunctionSelectorLength THEN [f |-> f, recv |-> f, err |-> TRUE]
    ELSE [f |-> f, recv |-> value.bytes, err |-> FALSE]

IdleSelector ==
    [pc |-> "idle", x |-> ZeroSelector, stored |-> NotBytesValue, f |-> ZeroSelector,
     scanned |-> NotBytesValue, err |-> FALSE]

\* stored, err := x.Value()
SelectorValue ==
    /\ fsel.pc = "value"
    /\ fsel' = [fsel EXCEPT !.pc = "scan", !.stored = Value(fsel.x).value,
                            !.err = Value(fsel.x).err]
    /\ UNCHANGED <<ubytes, mem>>
    /\ UNCHANGED <<lifecycleVars, handlerVars, flowVars, loop, callers, panicked>>

\* err := f.Scan(value), of the value stored before or of any other
SelectorScan(value) ==
    /\ fsel.pc = "scan"
    /\ fsel' = [fsel EXCEPT !.pc = "done", !.scanned = value,
                            !.f = Scan(fsel.f, value).f,
                            !.err = Scan(fsel.f, value).err]
    /\ UNCHANGED <<ubytes, mem>>
    /\ UNCHANGED <<lifecycleVars, handlerVars, flowVars, loop, callers, panicked>>

(* -------------------- package eth: UntrustedBytes --------------------- *)
UntrustedBytes == UNION {ByteStrings(n) : n \in 0..MaxAryLen}
Indexes == (0 - 1)..(MaxAryLen + 1)

\* SafeByteSlice that also turns away the empty range start = end
SafeByteSliceRejectsEmpty(ary, start, end) ==
    IF end > Len(ary) \/ start >= end \/ start < 0 \/ end < 0
    THEN [bytes |-> <<>>, err |-> TRUE]
    ELSE [bytes |-> SubSeq(ary, start + 1, end), err |-> FALSE]

\* func (ary UntrustedBytes) SafeByteSlice(start int, end int) ([]byte, error)
SafeByteSlice(ary, start, end) ==
    IF end > Len(ary) \/ start > end \/ start < 0 \/ end < 0
    THEN [bytes |-> <<>>, err |-> TRUE]
    ELSE [bytes |-> SubSeq(ary, start + 1, end), err |-> FALSE]

IdleBytes ==
    [pc |-> "idle", ary |-> <<>>, start |-> 0, end |-> 0, bytes |-> <<>>, err |-> FALSE]

\* bytes, err := ary.SafeByteSlice(start, end)
SafeByteSliceCall ==
    /\ ubytes.pc = "call"
    /\ ubytes' = [ubytes EXCEPT
          !.pc = "done",
          !.bytes = SafeByteSlice(ubytes.ary, ubytes.start, ubytes.end).bytes,
          !.err = SafeByteSlice(ubytes.ary, ubytes.start, ubytes.end).err]
    /\ UNCHANGED <<fsel, mem>>
    /\ UNCHANGED <<lifecycleVars, handlerVars, flowVars, loop, callers, panicked>>

(* ------------------------ package eth: Log ---------------------------- *)
\* A slice is nil, or points to an array of the heap (mem.heap, a sequence of
\* arrays; make appends one) and has a length.
NilSlice == [nil |-> TRUE, arr |-> 0, len |-> 0]
Slice(a, n) == [nil |-> FALSE, arr |-> a, len |-> n]

\* the elements a slice gives access to
Elems(heap, s) == IF s.nil THEN <<>> ELSE SubSeq(heap[s.arr], 1, s.len)

\* var cpy Log
ZeroLog ==
    [Address |-> "zero", Topics |-> NilSlice, Data |-> NilSlice, BlockNumber |-> 0,
     TxHash |-> 0, TxIndex |-> 0, BlockHash |-> 0, Index |-> 0, Removed |-> FALSE]

\* make([]T, n): a new zeroed array at the end of the heap
Make(heap, n) == Append(heap, [i \in 1..n |-> 0])

\* copy(dst, src) for slices of equal length
CopyElems(heap, dst, src) ==
    [heap EXCEPT ![dst.arr] = [i \in 1..Len(@) |-> IF i <= src.len THEN heap[src.arr][i] ELSE @[i]]]

\* Copy that assigns the slices instead of copying their elements
CopyShallow(heap, log) ==
    [heap |-> heap,
     cpy |-> [ZeroLog EXCEPT !.Address = log.Address, !.Topics = log.Topics,
                            !.Data = log.Data, !.BlockNumber = log.BlockNumber,
                            !.TxHash = log.TxHash, !.TxIndex = log.TxIndex,
                            !.BlockHash = log.BlockHash, !.Index = log.Index,
                            !.Removed = log.Removed]]

\* func (log Log) Copy() Log: the heap afterwards, and the log returned
Copy(heap, log) ==
    LET topics == IF log.Topics.nil THEN NilSlice
                  ELSE Slice(Len(heap) + 1, log.Topics.len)
        heap1 == IF log.Topics.nil THEN heap
                 ELSE CopyElems(Make(heap, log.Topics.len), topics, log.Topics)
        data == IF log.Data.nil THEN NilSlice
                ELSE Slice(Len(heap1) + 1, log.Data.len)
        heap2 == IF log.Data.nil THEN heap1
                 ELSE CopyElems(Make(heap1, log.Data.len), data, log.Data)
    IN  [heap |-> heap2,
         cpy |-> [ZeroLog EXCEPT !.Address = log.Address, !.Topics = topics,
                                !.Data = data, !.BlockNumber = log.BlockNumber,
                                !.TxHash = log.TxHash, !.TxIndex = log.TxIndex,
                                !.BlockHash = log.BlockHash, !.Index = log.Index,
                                !.Removed = log.Removed]]

\* the logs a caller may hold: topics and data nil, empty or not, in arrays
\* 1 and 2 of the heap
LogContents == UNION {ByteStrings(n) : n \in 0..MaxLogLen}

LogOf(tnil, t, dnil, d, removed) ==
    [heap |-> <<t, d>>,
     log |-> [Address |-> ContractAddress,
              Topics |-> IF tnil THEN NilSlice ELSE Slice(1, Len(t)),
              Data |-> IF dnil THEN NilSlice ELSE Slice(2, Len(d)),
              BlockNumber |-> 1, TxHash |-> 1, TxIndex |-> 1, BlockHash |-> 1,
              Index |-> 1, Removed |-> removed]]

IdleMem == [pc |-> "idle", heap |-> <<>>, log |-> ZeroLog, cpy |-> ZeroLog, wrote |-> "none"]

\* cpy := log.Copy()
LogCopy ==
    /\ mem.pc = "copy"
    /\ mem' = [mem EXCEPT !.pc = "write", !.heap = Copy(mem.heap, mem.log).heap,
                          !.cpy = Copy(mem.heap, mem.log).cpy]
    /\ UNCHANGED <<fsel, ubytes>>
    /\ UNCHANGED <<lifecycleVars, handlerVars, flowVars, loop, callers, panicked>>

\* who.Topics[i] = v or who.Data[i] = v, who the original or the copy
LogWrite(who, field, i, v) ==
    /\ mem.pc = "write"
    /\ LET s == (IF who = "log" THEN mem.log ELSE mem.cpy)[field]
       IN  /\ ~s.nil
           /\ i \in 1..s.len
           /\ mem' = [mem EXCEPT !.heap[s.arr][i] = v, !.wrote = who]
    /\ UNCHANGED <<fsel, ubytes>>
    /\ UNCHANGED <<lifecycleVars, handlerVars, flowVars, loop, callers, panicked>>

LibIdle == fsel = IdleSelector /\ ubytes = IdleBytes /\ mem = IdleMem

(* --------------------- utils.StartStopOnce --------------------------- *)
StartStopOnce_Unstarted == "Unstarted"
StartStopOnce_Started == "Started"
StartStopOnce_Stopped == "Stopped"

\* OkayToStart / OkayToStop: compare-and-set under the StartStopOnce lock;
\* the result, and the state afterwards.
OkayToStart(s) == s = StartStopOnce_Unstarted
AfterOkayToStart(s) == IF OkayToStart(s) THEN StartStopOnce_Started ELSE s
OkayToStop(s) == s = StartStopOnce_Started
AfterOkayToStop(s) == IF OkayToStop(s) THEN StartStopOnce_Stopped ELSE s

(* -------------------------- utils.Mailbox ---------------------------- *)
NewMailbox(capacity) == [queue |-> <<>>, chNotify |-> FALSE, capacity |-> capacity]

\* Deliver that turns the new item away when the mailbox is at capacity
DeliverRejectsWhenFull(m, x) ==
    [m EXCEPT !.queue = IF Len(@) >= m.capacity THEN @ ELSE Append(@, x),
              !.chNotify = TRUE]

\* Deliver: enqueue, evict the oldest beyond capacity, raise the (coalesced)
\* notification; never blocks.
Deliver(m, x) ==
    LET q == Append(m.queue, x)
    IN  [m EXCEPT !.queue = IF Len(q) > m.capacity THEN Tail(q) ELSE q,
                  !.chNotify = TRUE]

\* Retrieve that pops the newest pending item
RetrieveNewest(m) == IF Len(m.queue) = 0 THEN Nil ELSE m.queue[Len(m.queue)]

\* Retrieve: the oldest pending item, or Nil; and the mailbox afterwards.
Retrieve(m) == IF Len(m.queue) = 0 THEN Nil ELSE Head(m.queue)
AfterRetrieve(m) ==
    IF Len(m.queue) = 0 THEN m ELSE [m EXCEPT !.queue = Tail(m.queue)]

(* ------------------------------ Init --------------------------------- *)
\* The log broadcaster as this tracker sees it: the logs it hands to
\* HandleLog (named, see LogPool), whether its calls can fail (errs: the prior listener's error and
\* WasAlreadyConsumed; markErrs: MarkConsumed; TRUE is a failure), and how
\* many invocations it still makes.
Broadcaster(logs, errs, markErrs, n) ==
    [logs |-> logs, errs |-> errs, markErrs |-> markErrs, budget |-> n]

IdleCaller == [pc |-> "idle", ret |-> "none"]
IdleReader ==
    [pc |-> "idle", locked |-> FALSE, ConfigDigest |-> 0, Epoch |-> 0, Round |-> 0,
     err |-> FALSE, returned |-> FALSE]
IdleHandler == [pc |-> "idle", log |-> NoLog, was |-> FALSE, res |-> "none"]

\* NewOCRContractTracker
InitTracker ==
    /\ state = StartStopOnce_Unstarted
    /\ registered = FALSE
    /\ chStop = "open"
    /\ chConfigs = "open"
    /\ wg = 0
    /\ loop = [pc |-> "none", cc |-> Nil]
    /\ configsMB = NewMailbox(configMailboxSanityLimit)
    /\ latestRoundRequested = ZeroRoundRequested
    /\ lrrMu = 0
    /\ consumed = {}
    /\ handlers = [h \in Handlers |-> IdleHandler]
    /\ reader = IdleReader
    /\ callers = [c \in Callers |-> IdleCaller]
    /\ panicked = "no"
    /\ broadcaster = Broadcaster("FewLogs", {FALSE}, {FALSE}, MaxCalls)
    /\ spawned = 0
    /\ closeCall = "none"
    /\ closeRet = 0
    /\ delivered = <<>>
    /\ sent = <<>>
    /\ retrieved = <<>>

Init == InitTracker /\ LibIdle

Running == panicked = "no"

(* ------------------------------ Start -------------------------------- *)
\* StartBegin with the registration moved before the OkayToStart check
StartBeginRegistersFirst(c) ==
    /\ Running
    /\ callers[c].pc = "idle"
    /\ registered' = TRUE
    /\ state' = AfterOkayToStart(state)
    /\ callers' = [callers EXCEPT ![c] =
          IF OkayToStart(state) THEN [pc |-> "register", ret |-> "none"]
          ELSE [pc |-> "idle", ret |-> "StartErr"]]
    /\ UNCHANGED <<chStop, chConfigs, wg, spawned, closeCall, closeRet, loop, panicked>>
    /\ UNCHANGED <<handlerVars, flowVars>>
    /\ UNCHANGED libVars

\* Start, lines 375-377: OkayToStart, or the "already started" error
StartBegin(c) ==
    /\ Running
    /\ callers[c].pc = "idle"
    /\ state' = AfterOkayToStart(state)
    /\ callers' = [callers EXCEPT ![c] =
          IF OkayToStart(state) THEN [pc |-> "register", ret |-> "none"]
          ELSE [pc |-> "idle", ret |-> "StartErr"]]
    /\ UNCHANGED <<registered, chStop, chConfigs, wg, spawned, closeCall, closeRet,
                   loop, panicked>>
    /\ UNCHANGED <<handlerVars, flowVars>>
    /\ UNCHANGED libVars

\* line 378: logBroadcaster.Register (connected or not, Start goes on)
StartRegister(c) ==
    /\ Running
    /\ callers[c].pc = "register"
    /\ registered' = TRUE
    /\ callers' = [callers EXCEPT ![c].pc = "add"]
    /\ UNCHANGED <<state, chStop, chConfigs, wg, spawned, closeCall, closeRet,
                   loop, panicked>>
    /\ UNCHANGED <<handlerVars, flowVars>>
    /\ UNCHANGED libVars

\* line 382: wg.Add(1)
StartAdd(c) ==
    /\ Running
    /\ callers[c].pc = "add"
    /\ wg' = wg + 1
    /\ callers' = [callers EXCEPT ![c].pc = "go"]
    /\ UNCHANGED <<state, registered, chStop, chConfigs, spawned, closeCall, closeRet,
                   loop, panicked>>
    /\ UNCHANGED <<handlerVars, flowVars>>
    /\ UNCHANGED libVars

\* lines 383-384: go t.processLogs(); return nil
StartGo(c) ==
    /\ Running
    /\ callers[c].pc = "go"
    /\ spawned < 2
    /\ loop' = [pc |-> "select", cc |-> Nil]
    /\ spawned' = spawned + 1
    /\ callers' = [callers EXCEPT ![c] = [pc |-> "idle", ret |-> "StartOk"]]
    /\ UNCHANGED <<state, registered, chStop, chConfigs, wg, closeCall, closeRet, panicked>>
    /\ UNCHANGED <<handlerVars, flowVars>>
    /\ UNCHANGED libVars

(* ------------------------------ Close -------------------------------- *)
\* CloseBegin without the OkayToStop check: every Close goes on
CloseBeginUnchecked(c) ==
    /\ Running
    /\ callers[c].pc = "idle"
    /\ state' = StartStopOnce_Stopped
    /\ callers' = [callers EXCEPT ![c] = [pc |-> "closeStop", ret |-> "none"]]
    /\ closeCall' = loop.pc
    /\ UNCHANGED <<registered, chStop, chConfigs, wg, spawned, closeRet, loop, panicked>>
    /\ UNCHANGED <<handlerVars, flowVars>>
    /\ UNCHANGED libVars

\* Close, lines 389-391: OkayToStop, or the "already stopped" error
CloseBegin(c) ==
    /\ Running
    /\ callers[c].pc = "idle"
    /\ state' = AfterOkayToStop(state)
    /\ callers' = [callers EXCEPT ![c] =
          IF OkayToStop(state) THEN [pc |-> "closeStop", ret |-> "none"]
          ELSE [pc |-> "idle", ret |-> "CloseErr"]]
    /\ closeCall' = IF OkayToStop(state) THEN loop.pc ELSE closeCall
    /\ UNCHANGED <<registered, chStop, chConfigs, wg, spawned, closeRet, loop, panicked>>
    /\ UNCHANGED <<handlerVars, flowVars>>
    /\ UNCHANGED libVars

\* line 392: close(t.chStop); closing a closed channel panics
CloseStop(c) ==
    /\ Running
    /\ callers[c].pc = "closeStop"
    /\ chStop' = "closed"
    /\ panicked' = IF chStop = "closed" THEN "close of closed channel" ELSE panicked
    /\ callers' = [callers EXCEPT ![c].pc = "wait"]
    /\ UNCHANGED <<state, registered, chConfigs, wg, spawned, closeCall, closeRet, loop>>
    /\ UNCHANGED <<handlerVars, flowVars>>
    /\ UNCHANGED libVars

\* CloseWait that does not wait for the goroutine
CloseWaitSkipped(c) ==
    /\ Running
    /\ callers[c].pc = "wait"
    /\ callers' = [callers EXCEPT ![c].pc = "unregister"]
    /\ UNCHANGED <<lifecycleVars, loop, panicked>>
    /\ UNCHANGED <<handlerVars, flowVars>>
    /\ UNCHANGED libVars

\* line 393: t.wg.Wait() returns once the counter is zero
CloseWait(c) ==
    /\ Running
    /\ callers[c].pc = "wait"
    /\ wg = 0
    /\ callers' = [callers EXCEPT ![c].pc = "unregister"]
    /\ UNCHANGED <<lifecycleVars, loop, panicked>>
    /\ UNCHANGED <<handlerVars, flowVars>>
    /\ UNCHANGED libVars

\* line 394: logBroadcaster.Unregister
CloseUnregister(c) ==
    /\ Running
    /\ callers[c].pc = "unregister"
    /\ registered' = FALSE
    /\ callers' = [callers EXCEPT ![c].pc = "closeConfigs"]
    /\ UNCHANGED <<state, chStop, chConfigs, wg, spawned, closeCall, closeRet,
                   loop, panicked>>
    /\ UNCHANGED <<handlerVars, flowVars>>
    /\ UNCHANGED libVars

\* lines 395-396: close(t.chConfigs); return nil
CloseConfigs(c) ==
    /\ Running
    /\ callers[c].pc = "closeConfigs"
    /\ chConfigs' = "closed"
    /\ panicked' = IF chConfigs = "closed" THEN "close of closed channel" ELSE panicked
    /\ closeRet' = IF chConfigs = "closed" THEN closeRet ELSE closeRet + 1
    /\ callers' = [callers EXCEPT ![c] =
          IF chConfigs = "closed" THEN callers[c] ELSE [pc |-> "idle", ret |-> "CloseOk"]]
    /\ UNCHANGED <<state, registered, chStop, wg, spawned, closeCall, loop>>
    /\ UNCHANGED <<handlerVars, flowVars>>
    /\ UNCHANGED libVars

(* ---------------------------- processLogs ---------------------------- *)
\* line 403: case <-t.configsMB.Notify()
LoopNotify ==
    /\ Running
    /\ loop.pc = "select"
    /\ configsMB.chNotify
    /\ configsMB' = [configsMB EXCEPT !.chNotify = FALSE]
    /\ loop' = [loop EXCEPT !.pc = "retrieve"]
    /\ UNCHANGED <<lifecycleVars, handlerVars, callers, panicked, delivered, sent, retrieved>>
    /\ UNCHANGED libVars

\* lines 419-420: case <-t.chStop: return (defer t.wg.Done())
LoopStop ==
    /\ Running
    /\ loop.pc = "select"
    /\ chStop = "closed"
    /\ loop' = [pc |-> "done", cc |-> Nil]
    /\ wg' = wg - 1
    /\ UNCHANGED <<state, registered, chStop, chConfigs, spawned, closeCall, closeRet>>
    /\ UNCHANGED <<handlerVars, flowVars, callers, panicked>>
    /\ UNCHANGED libVars

\* lines 408-412: x := t.configsMB.Retrieve(); break on nil
LoopRetrieve ==
    /\ Running
    /\ loop.pc = "retrieve"
    /\ loop' = IF Retrieve(configsMB) = Nil
               THEN [pc |-> "select", cc |-> Nil]
               ELSE [pc |-> "send", cc |-> Retrieve(configsMB)]
    /\ configsMB' = AfterRetrieve(configsMB)
    /\ UNCHANGED <<lifecycleVars, handlerVars, callers, panicked, delivered, sent, retrieved>>
    /\ UNCHANGED libVars

\* LoopSend that goes back to the outer select after one send, without
\* draining the mailbox
LoopSendThenSelect ==
    /\ Running
    /\ loop.pc = "send"
    /\ IF chConfigs = "closed"
       THEN /\ panicked' = "send on closed channel"
            /\ UNCHANGED <<loop, sent>>
       ELSE /\ sent' = Append(sent, loop.cc)
            /\ loop' = [pc |-> "select", cc |-> Nil]
            /\ UNCHANGED panicked
    /\ UNCHANGED <<lifecycleVars, handlerVars, callers, configsMB, delivered, retrieved>>
    /\ UNCHANGED libVars

\* line 414: case t.chConfigs <- cc, completed by a receive of the consumer;
\* a send on a closed channel panics.
LoopSend ==
    /\ Running
    /\ loop.pc = "send"
    /\ IF chConfigs = "closed"
       THEN /\ panicked' = "send on closed channel"
            /\ UNCHANGED <<loop, sent>>
       ELSE /\ sent' = Append(sent, loop.cc)
            /\ loop' = [pc |-> "retrieve", cc |-> Nil]
            /\ UNCHANGED panicked
    /\ UNCHANGED <<lifecycleVars, handlerVars, callers, configsMB, delivered, retrieved>>
    /\ UNCHANGED libVars

\* LoopSendStop that leaves the select only, dropping the config and going
\* on with the drain
LoopSendStopContinues ==
    /\ Running
    /\ loop.pc = "send"
    /\ chStop = "closed"
    /\ loop' = [pc |-> "retrieve", cc |-> Nil]
    /\ UNCHANGED <<state, registered, chStop, chConfigs, wg, spawned, closeCall, closeRet>>
    /\ UNCHANGED <<handlerVars, flowVars, callers, panicked>>
    /\ UNCHANGED libVars

\* lines 415-416: case <-t.chStop: return, the pending send abandoned
LoopSendStop ==
    /\ Running
    /\ loop.pc = "send"
    /\ chStop = "closed"
    /\ loop' = [pc |-> "done", cc |-> Nil]
    /\ wg' = wg - 1
    /\ UNCHANGED <<state, registered, chStop, chConfigs, spawned, closeCall, closeRet>>
    /\ UNCHANGED <<handlerVars, flowVars, callers, panicked>>
    /\ UNCHANGED libVars

(* ----------------------------- HandleLog ----------------------------- *)
\* EarlyReturn without the already-consumed guard
EarlyReturnIgnoresWas(l, err, qerr, was) ==
    CASE err -> "priorError"
      [] qerr -> "queryError"
      [] Len(l.Topics) = 0 -> "noTopics"
      [] OTHER -> "none"

\* lines 433-450: the early returns before the dispatch; "none" goes on.
\* err: the prior listener's error; qerr: WasAlreadyConsumed failed;
\* was: its answer.
EarlyReturn(l, err, qerr, was) ==
    CASE err -> "priorError"
      [] qerr -> "queryError"
      [] was -> "alreadyConsumed"
      [] Len(l.Topics) = 0 -> "noTopics"
      [] OTHER -> "none"

\* DispatchCase that goes on to MarkConsumed when the decode fails
DispatchCaseMarksUndecodable(l) ==
    CASE l.Topics[1] = OCRContractConfigSet ->
            IF l.Address # ContractAddress THEN "addressMismatch"
            ELSE IF ~l.parse THEN "mark"
            ELSE "deliver"
      [] l.Topics[1] = OCRContractLatestRoundRequested ->
            IF l.Address # ContractAddress THEN "addressMismatch"
            ELSE IF ~l.parse THEN "mark"
            ELSE "merge"
      [] OTHER -> "mark"

\* DispatchCase without the address checks
DispatchCaseAnyAddress(l) ==
    CASE l.Topics[1] = OCRContractConfigSet -> IF ~l.parse THEN "parseError" ELSE "deliver"
      [] l.Topics[1] = OCRContractLatestRoundRequested ->
            IF ~l.parse THEN "parseError" ELSE "merge"
      [] OTHER -> "mark"

\* lines 451-490: what the switch on topics[0] does with the log
DispatchCase(l) ==
    CASE l.Topics[1] = OCRContractConfigSet ->
            IF l.Address # ContractAddress THEN "addressMismatch"
            ELSE IF ~l.parse THEN "parseError"
            ELSE "deliver"
      [] l.Topics[1] = OCRContractLatestRoundRequested ->
            IF l.Address # ContractAddress THEN "addressMismatch"
            ELSE IF ~l.parse THEN "parseError"
            ELSE "merge"
      [] OTHER -> "mark"

\* contractFilterer.ParseRoundRequested on a log it accepts
ParseRoundRequested(l) ==
    [ConfigDigest |-> l.ConfigDigest, Epoch |-> l.Epoch, Round |-> l.Round]

\* Accepts as a lexicographic comparison, the epoch first
AcceptsLexicographic(stored, rr) ==
    \/ rr.Epoch > stored.Epoch
    \/ rr.Epoch = stored.Epoch /\ rr.Round >= stored.Round

\* line 483: the candidate replaces the stored round request
Accepts(stored, rr) == rr.Round >= stored.Round /\ rr.Epoch >= stored.Epoch

\* lines 483-487
MergeRoundRequested(stored, rr) == IF Accepts(stored, rr) THEN rr ELSE stored

\* HandleLog is called by the broadcaster for a registered listener.
HLBegin(h, l, err, qerr) ==
    /\ Running
    /\ registered
    /\ handlers[h].pc = "idle"
    /\ broadcaster.budget > 0
    /\ broadcaster' = [broadcaster EXCEPT !.budget = @ - 1]
    /\ LET r == EarlyReturn(l, err, qerr, l \in consumed)
       IN  handlers' = [handlers EXCEPT ![h] =
              [pc |-> IF r = "none" THEN "dispatch" ELSE "idle",
               log |-> l, was |-> l \in consumed, res |-> r]]
    /\ UNCHANGED <<latestRoundRequested, lrrMu, consumed>>
    /\ UNCHANGED <<lifecycleVars, flowVars, loop, callers, panicked>>
    /\ UNCHANGED libVars
    /\ UNCHANGED reader

\* HLDispatch with a buffered channel in place of the mailbox: the hand-over
\* waits while configMailboxSanityLimit configs are pending
HLDispatchChannelSend(h) ==
    /\ Running
    /\ handlers[h].pc = "dispatch"
    /\ LET l == handlers[h].log
           d == DispatchCase(l)
           cc == ContractConfig(l.ConfigDigest)
       IN  /\ d = "merge" => (lrrMu = 0 /\ ~reader.locked)
           /\ d = "deliver" => Len(configsMB.queue) < configsMB.capacity
           /\ configsMB' = IF d = "deliver" THEN Deliver(configsMB, cc) ELSE configsMB
           /\ delivered' = IF d = "deliver" THEN Append(delivered, cc) ELSE delivered
           /\ lrrMu' = IF d = "merge" THEN h ELSE lrrMu
           /\ handlers' = [handlers EXCEPT ![h] =
                 [@ EXCEPT !.pc = CASE d = "deliver" -> "mark"
                                    [] d = "merge" -> "merge"
                                    [] d = "mark" -> "mark"
                                    [] OTHER -> "idle",
                           !.res = IF d \in {"addressMismatch", "parseError"}
                                   THEN d ELSE "none"]]
    /\ UNCHANGED <<latestRoundRequested, consumed, broadcaster, sent, retrieved>>
    /\ UNCHANGED <<lifecycleVars, loop, callers, panicked>>
    /\ UNCHANGED libVars
    /\ UNCHANGED reader

\* lines 451-482: address check, decode, then configsMB.Deliver(cc) or
\* t.lrrMu.Lock()
HLDispatch(h) ==
    /\ Running
    /\ handlers[h].pc = "dispatch"
    /\ LET l == handlers[h].log
           d == DispatchCase(l)
           cc == ContractConfig(l.ConfigDigest)
       IN  /\ d = "merge" => (lrrMu = 0 /\ ~reader.locked)
           /\ configsMB' = IF d = "deliver" THEN Deliver(configsMB, cc) ELSE configsMB
           /\ delivered' = IF d = "deliver" THEN Append(delivered, cc) ELSE delivered
           /\ lrrMu' = IF d = "merge" THEN h ELSE lrrMu
           /\ handlers' = [handlers EXCEPT ![h] =
                 [@ EXCEPT !.pc = CASE d = "deliver" -> "mark"
                                    [] d = "merge" -> "merge"
                                    [] d = "mark" -> "mark"
                                    [] OTHER -> "idle",
                           !.res = IF d \in {"addressMismatch", "parseError"}
                                   THEN d ELSE "none"]]
    /\ UNCHANGED <<latestRoundRequested, consumed, broadcaster, sent, retrieved>>
    /\ UNCHANGED <<lifecycleVars, loop, callers, panicked>>
    /\ UNCHANGED libVars
    /\ UNCHANGED reader

\* lines 483-488: compare, replace or ignore, t.lrrMu.Unlock()
HLMerge(h) ==
    /\ Running
    /\ handlers[h].pc = "merge"
    /\ lrrMu = h
    /\ latestRoundRequested' =
          MergeRoundRequested(latestRoundRequested, ParseRoundRequested(handlers[h].log))
    /\ lrrMu' = 0
    /\ handlers' = [handlers EXCEPT ![h].pc = "mark"]
    /\ UNCHANGED <<consumed, broadcaster>>
    /\ UNCHANGED <<lifecycleVars, flowVars, loop, callers, panicked>>
    /\ UNCHANGED libVars
    /\ UNCHANGED reader

\* HLMark that undoes the round-request update when MarkConsumed fails
HLMarkUndoesOnError(h, merr) ==
    /\ Running
    /\ handlers[h].pc = "mark"
    /\ consumed' = IF merr THEN consumed ELSE consumed \cup {handlers[h].log}
    /\ latestRoundRequested' = IF merr THEN ZeroRoundRequested ELSE latestRoundRequested
    /\ handlers' = [handlers EXCEPT ![h] =
          [@ EXCEPT !.pc = "idle", !.res = IF merr THEN "markError" ELSE "marked"]]
    /\ UNCHANGED <<lrrMu, broadcaster>>
    /\ UNCHANGED <<lifecycleVars, flowVars, loop, callers, panicked>>
    /\ UNCHANGED libVars
    /\ UNCHANGED reader

\* lines 493-497: lb.MarkConsumed(), which may fail (merr)
HLMark(h, merr) ==
    /\ Running
    /\ handlers[h].pc = "mark"
    /\ consumed' = IF merr THEN consumed ELSE consumed \cup {handlers[h].log}
    /\ handlers' = [handlers EXCEPT ![h] =
          [@ EXCEPT !.pc = "idle", !.res = IF merr THEN "markError" ELSE "marked"]]
    /\ UNCHANGED <<latestRoundRequested, lrrMu, broadcaster>>
    /\ UNCHANGED <<lifecycleVars, flowVars, loop, callers, panicked>>
    /\ UNCHANGED libVars
    /\ UNCHANGED reader

(* ----------------------- LatestRoundRequested ------------------------ *)
\* LRRLock that does not take the read lock
LRRLockSkipped ==
    /\ Running
    /\ reader.pc = "idle"
    /\ reader' = [IdleReader EXCEPT !.pc = "digest"]
    /\ UNCHANGED <<latestRoundRequested, lrrMu, consumed, handlers, broadcaster>>
    /\ UNCHANGED <<lifecycleVars, flowVars, loop, callers, panicked>>
    /\ UNCHANGED libVars

\* line 592: t.lrrMu.RLock(), which waits while a writer holds the lock
LRRLock ==
    /\ Running
    /\ reader.pc = "idle"
    /\ lrrMu = 0
    /\ reader' = [IdleReader EXCEPT !.pc = "digest", !.locked = TRUE]
    /\ UNCHANGED <<latestRoundRequested, lrrMu, consumed, handlers, broadcaster>>
    /\ UNCHANGED <<lifecycleVars, flowVars, loop, callers, panicked>>
    /\ UNCHANGED libVars

\* line 594: the operands of the return statement, read one after another
LRRRead ==
    /\ Running
    /\ reader.pc \in {"digest", "epoch", "round"}
    /\ reader' =
          CASE reader.pc = "digest" ->
                  [reader EXCEPT !.pc = "epoch",
                                 !.ConfigDigest = latestRoundRequested.ConfigDigest]
            [] reader.pc = "epoch" ->
                  [reader EXCEPT !.pc = "round", !.Epoch = latestRoundRequested.Epoch]
            [] reader.pc = "round" ->
                  [reader EXCEPT !.pc = "unlock", !.Round = latestRoundRequested.Round,
                                 !.err = FALSE]
    /\ UNCHANGED <<latestRoundRequested, lrrMu, consumed, handlers, broadcaster>>
    /\ UNCHANGED <<lifecycleVars, flowVars, loop, callers, panicked>>
    /\ UNCHANGED libVars

\* line 593: defer t.lrrMu.RUnlock(), and the return to the caller
LRRUnlock ==
    /\ Running
    /\ reader.pc = "unlock"
    /\ reader' = [reader EXCEPT !.pc = "idle", !.locked = FALSE, !.returned = TRUE]
    /\ UNCHANGED <<latestRoundRequested, lrrMu, consumed, handlers, broadcaster>>
    /\ UNCHANGED <<lifecycleVars, flowVars, loop, callers, panicked>>
    /\ UNCHANGED libVars

LatestRoundRequested == LRRLock \/ LRRRead \/ LRRUnlock

(* --------------------------- specification --------------------------- *)
Start(c) == StartBegin(c) \/ StartRegister(c) \/ StartAdd(c) \/ StartGo(c)

Close(c) ==
    \/ CloseBegin(c) \/ CloseStop(c) \/ CloseWait(c)
    \/ CloseUnregister(c) \/ CloseConfigs(c)

Lifecycle == \E c \in Callers : Start(c) \/ Close(c)

\* the forwarding steps of processLogs, and those that end it
Forward == LoopNotify \/ LoopRetrieve \/ LoopSend
ProcessLogs == Forward \/ LoopStop \/ LoopSendStop

HandleLogStep(h) ==
    HLDispatch(h) \/ HLMerge(h) \/ \E merr \in broadcaster.markErrs : HLMark(h, merr)

HandleLog(h) ==
    \/ \E l \in LogPool(broadcaster.logs), err \in broadcaster.errs, qerr \in broadcaster.errs :
          HLBegin(h, l, err, qerr)
    \/ HandleLogStep(h)

Next ==
    \/ Lifecycle
    \/ ProcessLogs
    \/ HandleLog(1)

Spec == Init /\ [][Next]_vars

\* The goroutines run when they can: processLogs (but nothing makes the
\* consumer receive, so LoopSend is not fair) and a Close that was let in.
FairSpec ==
    /\ Spec
    /\ WF_vars(LoopNotify \/ LoopStop \/ LoopRetrieve \/ LoopSendStop)
    /\ \A c \in Callers :
          WF_vars(CloseStop(c) \/ CloseWait(c) \/ CloseUnregister(c) \/ CloseConfigs(c))

\* LogSpec: a started tracker (Start has returned, the loop waits in its
\* select) handed every kind of log, with every outcome of the
\* broadcaster's calls, by concurrent broadcaster goroutines.
InitStarted ==
    /\ state = StartStopOnce_Started
    /\ registered = TRUE
    /\ chStop = "open"
    /\ chConfigs = "open"
    /\ wg = 1
    /\ loop = [pc |-> "select", cc |-> Nil]
    /\ configsMB = NewMailbox(configMailboxSanityLimit)
    /\ latestRoundRequested = ZeroRoundRequested
    /\ lrrMu = 0
    /\ consumed = {}
    /\ handlers = [h \in Handlers |-> IdleHandler]
    /\ reader = IdleReader
    /\ callers = [c \in Callers |->
          IF c = 1 THEN [pc |-> "idle", ret |-> "StartOk"] ELSE IdleCaller]
    /\ panicked = "no"
    /\ spawned = 1
    /\ closeCall = "none"
    /\ closeRet = 0
    /\ delivered = <<>>
    /\ sent = <<>>
    /\ retrieved = <<>>
    /\ LibIdle

InitLog == InitStarted /\ broadcaster = Broadcaster("AllLogs", BOOLEAN, BOOLEAN, MaxLogCalls)

NextLog ==
    \/ Forward
    \/ HandleLog(1)

LogSpec == InitLog /\ [][NextLog]_vars

\* FullSpec: a started tracker whose consumer never receives, handed logs by
\* concurrent broadcaster goroutines while one goroutine may call Close.
\* Either the broadcaster hands over one configuration change again and
\* again, MarkConsumed failing each time, until the mailbox holds
\* configMailboxSanityLimit configs and beyond; or it hands over a few logs
\* of several kinds, MarkConsumed failing or not.
InitFull ==
    /\ InitStarted
    /\ broadcaster \in
          {Broadcaster("OneLog", {FALSE}, {TRUE}, configMailboxSanityLimit + ExtraCalls),
           Broadcaster("MixedLogs", {FALSE}, BOOLEAN, MaxLogCalls)}

NextFull ==
    \/ LoopNotify \/ LoopRetrieve \/ LoopStop \/ LoopSendStop
    \/ Close(1)
    \/ \E h \in Handlers : HandleLog(h)

FullSpec == InitFull /\ [][NextFull]_vars

\* MailboxSpec: a mailbox of some capacity on its own, a producer calling
\* Deliver and a consumer calling Notify and Retrieve.
InitMailbox ==
    /\ state = StartStopOnce_Unstarted
    /\ registered = FALSE
    /\ chStop = "open"
    /\ chConfigs = "open"
    /\ wg = 0
    /\ loop = [pc |-> "none", cc |-> Nil]
    /\ \E capacity \in 1..MaxCapacity : configsMB = NewMailbox(capacity)
    /\ latestRoundRequested = ZeroRoundRequested
    /\ lrrMu = 0
    /\ consumed = {}
    /\ handlers = [h \in Handlers |-> IdleHandler]
    /\ reader = IdleReader
    /\ callers = [c \in Callers |-> IdleCaller]
    /\ panicked = "no"
    /\ broadcaster = Broadcaster("NoLogs", {}, {}, 0)
    /\ spawned = 0
    /\ closeCall = "none"
    /\ closeRet = 0
    /\ delivered = <<>>
    /\ sent = <<>>
    /\ retrieved = <<>>
    /\ LibIdle

MailboxDeliver(x) ==
    /\ Len(delivered) + Len(retrieved) < MaxOps
    /\ configsMB' = Deliver(configsMB, x)
    /\ delivered' = Append(delivered, x)
    /\ UNCHANGED <<lifecycleVars, handlerVars, loop, callers, panicked, sent, retrieved>>
    /\ UNCHANGED libVars

MailboxNotify ==
    /\ configsMB.chNotify
    /\ configsMB' = [configsMB EXCEPT !.chNotify = FALSE]
    /\ UNCHANGED <<lifecycleVars, handlerVars, loop, callers, panicked,
                   delivered, sent, retrieved>>
    /\ UNCHANGED libVars

MailboxRetrieve ==
    /\ Len(delivered) + Len(retrieved) < MaxOps
    /\ retrieved' = Append(retrieved, Retrieve(configsMB))
    /\ configsMB' = AfterRetrieve(configsMB)
    /\ UNCHANGED <<lifecycleVars, handlerVars, loop, callers, panicked, delivered, sent>>
    /\ UNCHANGED libVars

NextMailbox ==
    \/ \E d \in Digests : MailboxDeliver(ContractConfig(d))
    \/ MailboxNotify
    \/ MailboxRetrieve

MailboxSpec == InitMailbox /\ [][NextMailbox]_vars

\* FlowSpec: a started tracker that nobody stops, whose consumer keeps
\* receiving, handed configuration changes (again when MarkConsumed failed)
\* and a round request while the loop forwards.
InitFlow == InitStarted /\ broadcaster = Broadcaster("FlowLogs", {FALSE}, BOOLEAN, MaxCalls + 1)

FlowSpec == InitFlow /\ [][NextLog]_vars /\ WF_vars(Forward)

\* StopSpec: a started tracker handed logs while its loop forwards, its
\* consumer receives when it pleases, and a caller closes it.
InitStop == InitStarted /\ broadcaster = Broadcaster("FlowLogs", {FALSE}, {FALSE}, MaxCalls)

NextStop ==
    \/ ProcessLogs
    \/ \E c \in Callers : Close(c)
    \/ HandleLog(1)

StopSpec == InitStop /\ [][NextStop]_vars

\* RedeliverySpec: a started tracker handed round requests of every config
\* digest, epoch and round, and a configuration change, by concurrent
\* broadcaster goroutines; a log whose MarkConsumed failed is handed over
\* again.
InitRedelivery ==
    InitStarted /\ broadcaster = Broadcaster("RedeliveryLogs", {FALSE}, BOOLEAN,
                                              MaxLogCalls + 1)

NextRedelivery ==
    \/ Forward
    \/ \E h \in Handlers : HandleLog(h)

RedeliverySpec == InitRedelivery /\ [][NextRedelivery]_vars

\* ReadSpec: a started tracker handed round requests by concurrent
\* broadcaster goroutines while a goroutine calls LatestRoundRequested.
InitRead == InitStarted /\ broadcaster = Broadcaster("ReadLogs", {FALSE}, {FALSE}, MaxLogCalls)

NextRead ==
    \/ \E h \in Handlers : HandleLog(h)
    \/ LatestRoundRequested

ReadSpec == InitRead /\ [][NextRead]_vars

\* SelectorSpec: a selector x is stored with Value; then a stored value,
\* that one or any other, is scanned into a fresh selector.
InitSelector ==
    /\ InitTracker
    /\ \E x \in FunctionSelectors : fsel = [IdleSelector EXCEPT !.pc = "value", !.x = x]
    /\ ubytes = IdleBytes
    /\ mem = IdleMem

NextSelector ==
    \/ SelectorValue
    \/ \E value \in StoredValues : SelectorScan(value)

SelectorSpec == InitSelector /\ [][NextSelector]_vars

\* SliceSpec: SafeByteSlice called on any payload with any start and end
InitSlice ==
    /\ InitTracker
    /\ fsel = IdleSelector
    /\ \E ary \in UntrustedBytes, start \in Indexes, end \in Indexes :
          ubytes = [IdleBytes EXCEPT !.pc = "call", !.ary = ary, !.start = start, !.end = end]
    /\ mem = IdleMem

NextSlice == SafeByteSliceCall

SliceSpec == InitSlice /\ [][NextSlice]_vars

\* CopySpec: a log is copied; then elements of the topics and data of the
\* original and of the copy are written, in any order.
InitCopy ==
    /\ InitTracker
    /\ fsel = IdleSelector
    /\ ubytes = IdleBytes
    /\ \E tnil \in BOOLEAN, t \in LogContents, dnil \in BOOLEAN, d \in LogContents,
          removed \in BOOLEAN :
          /\ tnil => t = <<>>
          /\ dnil => d = <<>>
          /\ mem = [IdleMem EXCEPT !.pc = "copy",
                                   !.heap = LogOf(tnil, t, dnil, d, removed).heap,
                                   !.log = LogOf(tnil, t, dnil, d, removed).log]

NextCopy ==
    \/ LogCopy
    \/ \E who \in {"log", "cpy"}, field \in {"Topics", "Data"}, i \in 1..MaxLogLen,
          v \in Bytes : LogWrite(who, field, i, v)

CopySpec == InitCopy /\ [][NextCopy]_vars

(* ------------------------------ claims ------------------------------- *)
\* the handler's goroutine takes a step of an invocation under way
Acts(h) == handlers[h].pc # "idle" /\ handlers'[h] # handlers[h]

\* the steps an invocation at pc still has to take, at most
StepsLeft(pc) ==
    CASE pc = "dispatch" -> 3 [] pc = "merge" -> 2 [] pc = "mark" -> 1 [] OTHER -> 0

\* C1: HandleLog never waits for the forwarding loop or the consumer: an
\* invocation under way can always take its next step (unless another
\* HandleLog holds the round-request lock, which that one can then release),
\* and each step brings it nearer to its return; with a consumer that never
\* receives and a mailbox at capacity too.
C1_HandleLogNeverBlocks ==
    /\ [](\A h \in Handlers :
            handlers[h].pc # "idle" =>
                \/ ENABLED HandleLogStep(h)
                \/ \E g \in Handlers \ {h} : lrrMu = g /\ ENABLED HLMerge(g))
    /\ [][\A h \in Handlers :
            Acts(h) => StepsLeft(handlers'[h].pc) < StepsLeft(handlers[h].pc)]_vars

\* an invocation has handed a config to a mailbox at capacity and returned,
\* the loop blocked in its send
C1_Witness ==
    /\ Len(delivered) > configMailboxSanityLimit
    /\ Len(configsMB.queue) = configsMB.capacity
    /\ loop.pc = "send"
    /\ sent = <<>>
    /\ \A h \in Handlers : handlers[h].pc = "idle" /\ handlers[h].res = "markError"

\* C2: a Close let in while the forwarding loop is blocked in its send
\* (the consumer need never receive) eventually returns, returns only after
\* the loop has exited, and no send happens after it has returned.
C2_CloseWhileBlockedReturns ==
    /\ (closeCall = "send") ~> (closeRet = 1)
    /\ [](closeCall = "send" /\ closeRet = 1 => loop.pc = "done")
    /\ [][closeCall = "send" /\ closeRet = 1 => sent' = sent /\ loop'.pc = "done"]_vars

C2_Witness ==
    /\ closeCall = "send"
    /\ closeRet = 1
    /\ loop.pc = "done"
    /\ Len(delivered) >= 1
    /\ sent = <<>>

\* C3 (as claimed): no send is ever attempted on the closed consumer
\* channel, whatever the interleaving of Start, Close, HandleLog and the loop.
C3_NoSendOnClosedChannel ==
    /\ ~(chConfigs = "closed" /\ loop.pc = "send")
    /\ panicked # "send on closed channel"

\* C4: a Start outside Unstarted and a Close outside Started return an error
\* and leave lifecycle state, registration, stop signal, goroutine and
\* consumer channel as they were; Start is let in only in Unstarted, Close
\* only in Started; Stopped is terminal.
C4_LifecycleMisuse ==
    [][/\ \A c \in Callers :
            /\ (callers'[c] # callers[c] /\ callers'[c].ret = "StartErr")
                  => /\ state # StartStopOnce_Unstarted
                     /\ UNCHANGED <<state, registered, chStop, chConfigs, wg, loop, spawned>>
            /\ (callers'[c] # callers[c] /\ callers'[c].ret = "CloseErr")
                  => /\ state # StartStopOnce_Started
                     /\ UNCHANGED <<state, registered, chStop, chConfigs, wg, loop, spawned>>
            /\ (callers[c].pc = "idle" /\ callers'[c].pc = "register")
                  => state = StartStopOnce_Unstarted /\ state' = StartStopOnce_Started
            /\ (callers[c].pc = "idle" /\ callers'[c].pc = "closeStop")
                  => state = StartStopOnce_Started /\ state' = StartStopOnce_Stopped
       /\ state' # state
            => \E c \in Callers : callers[c].pc = "idle" /\ callers'[c].pc \in {"register", "closeStop"}
       /\ state = StartStopOnce_Stopped => state' = StartStopOnce_Stopped]_vars

C4_Witness ==
    /\ state = StartStopOnce_Stopped
    /\ closeRet = 1
    /\ \E c1 \in Callers, c2 \in Callers :
          callers[c1].ret = "StartErr" /\ callers[c2].ret = "CloseErr"

\* C5: the stop signal and the consumer channel are closed at most once,
\* and exactly by the one Close that succeeds; at most one processLogs
\* goroutine is ever spawned.
C5_ClosedOnceSpawnedOnce ==
    /\ panicked # "close of closed channel"
    /\ spawned <= 1
    /\ closeRet <= 1
    /\ (chConfigs = "closed") <=> (closeRet = 1)
    /\ chConfigs = "closed" => chStop = "closed"
    /\ chStop = "closed" => state = StartStopOnce_Stopped
    /\ Cardinality({c \in Callers :
          callers[c].pc \in {"closeStop", "wait", "unregister", "closeConfigs"}}) + closeRet <= 1
    /\ Cardinality({c \in Callers : callers[c].pc \in {"register", "add", "go"}}) + spawned <= 1

C5_Witness ==
    /\ closeRet = 1
    /\ spawned = 1
    /\ chStop = "closed"
    /\ chConfigs = "closed"
    /\ \A c \in Callers : callers[c].ret \in {"CloseErr", "StartErr"}

RoundRequest(e, r) == [ConfigDigest |-> 1, Epoch |-> e, Round |-> r]

\* C6: a decoded round request of the tracked address replaces the stored
\* one iff its epoch >= the stored epoch and its round >= the stored round,
\* each compared on its own; otherwise the stored one stays. From (5,3):
\* (5,2) is rejected, (5,4) accepted, (4,9) rejected.
C6_RoundStateUpdate ==
    /\ MergeRoundRequested(RoundRequest(5, 3), RoundRequest(5, 2)) = RoundRequest(5, 3)
    /\ MergeRoundRequested(RoundRequest(5, 3), RoundRequest(5, 4)) = RoundRequest(5, 4)
    /\ MergeRoundRequested(RoundRequest(5, 3), RoundRequest(4, 9)) = RoundRequest(5, 3)
    /\ [][/\ \A h \in Handlers :
               (handlers[h].pc = "merge" /\ handlers'[h].pc # "merge") =>
                  LET l == handlers[h].log
                  IN  /\ l.Address = ContractAddress /\ l.parse
                      /\ l.Topics = <<OCRContractLatestRoundRequested>>
                      /\ IF /\ l.Epoch >= latestRoundRequested.Epoch
                            /\ l.Round >= latestRoundRequested.Round
                         THEN latestRoundRequested' =
                                 [ConfigDigest |-> l.ConfigDigest, Epoch |-> l.Epoch,
                                  Round |-> l.Round]
                         ELSE latestRoundRequested' = latestRoundRequested
          /\ latestRoundRequested' # latestRoundRequested
                => \E h \in Handlers : handlers[h].pc = "merge" /\ handlers'[h].pc # "merge"
       ]_vars

\* a higher epoch with a lower round was compared and rejected
C6_Witness ==
    \E h \in Handlers :
        /\ handlers[h].pc = "mark"
        /\ DispatchCase(handlers[h].log) = "merge"
        /\ handlers[h].log.Epoch > latestRoundRequested.Epoch
        /\ handlers[h].log.Round < latestRoundRequested.Round

\* C7 (as claimed): while HandleLog handles a log with Removed = TRUE,
\* the stored round request is not replaced and nothing is delivered to the
\* mailbox.
C7_RemovedNeverAdvances ==
    [][\A h \in Handlers :
          (Acts(h) /\ handlers[h].log.Removed) =>
              /\ latestRoundRequested' = latestRoundRequested
              /\ configsMB' = configsMB
              /\ delivered' = delivered]_vars

\* C8: an invocation that starts when its log is already marked consumed
\* returns at once and changes neither the round request, nor the mailbox,
\* nor the marks.
C8_IdempotentDelivery ==
    /\ [](\A h \in Handlers :
            handlers[h].was =>
                /\ handlers[h].pc = "idle"
                /\ handlers[h].res \in {"priorError", "queryError", "alreadyConsumed"})
    /\ [][\A h \in Handlers :
            (handlers'[h] # handlers[h] /\ handlers'[h].was) =>
                UNCHANGED <<latestRoundRequested, lrrMu, configsMB, delivered, consumed>>]_vars

\* a configuration change handled, marked, handed over again and skipped
C8_Witness ==
    \E h \in Handlers :
        /\ handlers[h].res = "alreadyConsumed"
        /\ handlers[h].was
        /\ handlers[h].log \in consumed
        /\ DispatchCase(handlers[h].log) = "deliver"
        /\ delivered = <<ContractConfig(handlers[h].log.ConfigDigest)>>
        /\ broadcaster.budget = 0

\* C9: a configuration-changed or round-requested log of another address
\* is dropped: it reaches neither the mailbox nor the stored round request
\* (and is not marked consumed).
C9_AddressMismatchDropped ==
    /\ [](\A h \in Handlers :
            (/\ handlers[h].log.Address # ContractAddress
             /\ handlers[h].log.Topics \in {<<OCRContractConfigSet>>,
                                            <<OCRContractLatestRoundRequested>>})
               => handlers[h].pc \in {"idle", "dispatch"})
    /\ [][\A h \in Handlers :
            (/\ Acts(h)
             /\ handlers[h].log.Address # ContractAddress
             /\ handlers[h].log.Topics \in {<<OCRContractConfigSet>>,
                                            <<OCRContractLatestRoundRequested>>})
               => /\ UNCHANGED <<latestRoundRequested, configsMB, delivered, sent, consumed>>
                  /\ handlers'[h].res = "addressMismatch"]_vars

C9_Witness ==
    \E h \in Handlers :
        /\ handlers[h].res = "addressMismatch"
        /\ handlers[h].log.Topics = <<OCRContractConfigSet>>
        /\ handlers[h].log.parse
        /\ delivered = <<>>
        /\ configsMB.queue = <<>>
        /\ broadcaster.budget = 0

NotNil(x) == x # Nil
Last(q) == q[Len(q)]

\* C10: the mailbox is first in, first out. While no more than capacity
\* items have been delivered, the items retrieved so far followed by the
\* pending ones are the items delivered, in delivery order; Retrieve returns
\* the oldest pending item, and Nil exactly when nothing is pending.
C10_MailboxFifo ==
    /\ [](Len(delivered) <= configsMB.capacity
            => SelectSeq(retrieved, NotNil) \o configsMB.queue = delivered)
    /\ [][retrieved' # retrieved =>
            /\ (Last(retrieved') = Nil) <=> (configsMB.queue = <<>>)
            /\ configsMB.queue # <<>> =>
                  /\ Last(retrieved') = Head(configsMB.queue)
                  /\ Last(retrieved') = delivered[Len(delivered) - Len(configsMB.queue) + 1]
                  /\ configsMB'.queue = Tail(configsMB.queue)]_vars

\* capacity-many distinct items delivered to the empty mailbox, then
\* retrieved in order, then Nil
C10_Witness ==
    /\ Len(delivered) = configsMB.capacity
    /\ Len(delivered) >= 2
    /\ delivered[1] # delivered[2]
    /\ retrieved = delivered \o <<Nil>>

\* what a consumer gets by calling Retrieve until it returns Nil
RECURSIVE Drain(_)
Drain(m) ==
    IF Retrieve(m) = Nil THEN <<>> ELSE <<Retrieve(m)>> \o Drain(AfterRetrieve(m))

\* C11: the mailbox never holds more than its capacity; a Deliver is never
\* held up by a full mailbox; delivered to a full mailbox, an item evicts the
\* oldest pending one and becomes the newest, the notification raised; what
\* is pending is always the most recent deliveries in order, and the consumer
\* gets all of it by calling Retrieve until Nil.
C11_MailboxOverflow ==
    /\ [](Len(configsMB.queue) <= configsMB.capacity)
    /\ [](Len(delivered) + Len(retrieved) < MaxOps =>
            \A d \in Digests : ENABLED MailboxDeliver(ContractConfig(d)))
    /\ [](/\ Len(configsMB.queue) <= Len(delivered)
          /\ configsMB.queue = SubSeq(delivered, Len(delivered) - Len(configsMB.queue) + 1,
                                      Len(delivered))
          /\ Drain(configsMB) = configsMB.queue)
    /\ [][(delivered' # delivered /\ Len(configsMB.queue) = configsMB.capacity) =>
            /\ configsMB'.queue = Tail(configsMB.queue) \o <<Last(delivered')>>
            /\ configsMB'.chNotify]_vars

\* one delivery beyond a capacity of two has evicted the oldest item, and
\* the consumer has retrieved the two that remained
C11_Witness ==
    /\ configsMB.capacity = 2
    /\ Len(delivered) = 3
    /\ delivered[1] # delivered[2]
    /\ retrieved = <<delivered[2], delivered[3]>>
    /\ configsMB.queue = <<>>

\* C12: the notification is raised whenever an item is pending that the
\* loop is not already draining; taking it clears it, however many deliveries
\* raised it; and every config delivered to the mailbox (none is evicted) is
\* eventually sent to the consumer, in its place.
C12_CoalescedNotificationLosesNone ==
    /\ [](configsMB.queue # <<>> => (configsMB.chNotify \/ loop.pc \in {"retrieve", "send"}))
    /\ [][/\ delivered' # delivered => configsMB'.chNotify
          /\ (loop.pc = "select" /\ loop'.pc # "select") =>
                (configsMB.chNotify /\ ~configsMB'.chNotify /\ loop'.pc = "retrieve")]_vars
    /\ \A n \in 1..(MaxCalls + 1) :
          (Len(delivered) >= n) ~> (Len(sent) >= n /\ sent[n] = delivered[n])

\* after a first config was forwarded, two deliveries wait under one
\* notification, the loop in its outer select
C12_Witness ==
    /\ Len(delivered) = 3
    /\ sent = <<delivered[1]>>
    /\ configsMB.queue = <<delivered[2], delivered[3]>>
    /\ configsMB.chNotify
    /\ loop.pc = "select"

\* C13 (as claimed): the stored value Value(x) of a selector x, scanned
\* into a selector, leaves that selector equal to x and returns no error; a
\* stored byte string of a length other than FunctionSelectorLength gives
\* an error.
C13_SelectorRoundTrip ==
    fsel.pc = "done" =>
        /\ (fsel.stored = BytesValue(fsel.x) /\ fsel.scanned = fsel.stored)
              => (fsel.f = fsel.x /\ ~fsel.err)
        /\ (fsel.scanned.isBytes /\ Len(fsel.scanned.bytes) # FunctionSelectorLength)
              => fsel.err

\* C14: SafeByteSlice returns an error and an empty result whenever
\* start < 0, end < 0, start > end or end > len(payload), and otherwise
\* exactly the bytes payload[start:end] and no error.
C14_SafeByteSlice ==
    ubytes.pc = "done" =>
        IF \/ ubytes.start < 0 \/ ubytes.end < 0
           \/ ubytes.start > ubytes.end \/ ubytes.end > Len(ubytes.ary)
        THEN ubytes.err /\ ubytes.bytes = <<>>
        ELSE /\ ~ubytes.err
             /\ ubytes.bytes = [i \in 1..(ubytes.end - ubytes.start) |->
                                   ubytes.ary[ubytes.start + i]]

\* the empty range at the end of a payload is valid
C14_Witness ==
    /\ ubytes.pc = "done"
    /\ Len(ubytes.ary) = MaxAryLen
    /\ ubytes.start = ubytes.end
    /\ ubytes.end = Len(ubytes.ary)
    /\ ~ubytes.err
    /\ ubytes.bytes = <<>>

\* C15: Copy returns a log equal to the original in every field, topics and
\* data element by element (nil staying nil), whose topics and data are in
\* arrays of their own; afterwards a write to an element of the copy's topics
\* or data leaves the original as it was, and a write to the original leaves
\* the copy as it was.
C15_CopySharesNoStorage ==
    /\ [](mem.pc = "write" =>
            /\ \A field \in {"Topics", "Data"} :
                  /\ mem.cpy[field].nil = mem.log[field].nil
                  /\ mem.cpy[field].len = mem.log[field].len
                  /\ ~mem.cpy[field].nil =>
                        mem.cpy[field].arr \notin {mem.log.Topics.arr, mem.log.Data.arr}
            /\ \A field \in {"Address", "BlockNumber", "TxHash", "TxIndex", "BlockHash",
                             "Index", "Removed"} : mem.cpy[field] = mem.log[field])
    /\ [][/\ (mem.pc = "copy" /\ mem'.pc = "write") =>
                /\ mem'.log = mem.log
                /\ \A field \in {"Topics", "Data"} :
                      /\ Elems(mem'.heap, mem'.log[field]) = Elems(mem.heap, mem.log[field])
                      /\ Elems(mem'.heap, mem'.cpy[field]) = Elems(mem.heap, mem.log[field])
          /\ (mem.pc = "write" /\ mem'.wrote = "cpy") =>
                \A field \in {"Topics", "Data"} :
                    Elems(mem'.heap, mem'.log[field]) = Elems(mem.heap, mem.log[field])
          /\ (mem.pc = "write" /\ mem'.wrote = "log") =>
                \A field \in {"Topics", "Data"} :
                    Elems(mem'.heap, mem'.cpy[field]) = Elems(mem.heap, mem.cpy[field])]_vars

\* after writes to both, the copy and the original differ in topics and data
C15_Witness ==
    /\ mem.pc = "write"
    /\ mem.wrote = "log"
    /\ mem.log.Removed
    /\ mem.log.Topics.len = MaxLogLen
    /\ mem.log.Data.len = MaxLogLen
    /\ Elems(mem.heap, mem.cpy.Topics) # Elems(mem.heap, mem.log.Topics)
    /\ Elems(mem.heap, mem.cpy.Data) # Elems(mem.heap, mem.log.Data)

\* C16 (as claimed): once the stop signal has been raised the forwarding
\* loop completes no send to the consumer channel, and a loop with a send
\* pending then leaves that send and exits.
C16_NoSendAfterStop ==
    [][chStop = "closed" =>
          /\ sent' = sent
          /\ (loop.pc = "send" /\ loop' # loop) => loop'.pc = "done"]_vars

\* an invocation of g has acted on log l and returned, MarkConsumed failing
ActedNotMarked(g, l) ==
    /\ handlers[g].pc = "idle"
    /\ handlers[g].res = "markError"
    /\ handlers[g].log = l

\* C17 (as claimed): when a log that was acted on but not marked consumed is
\* handled again, whatever was handled in between, a round request leaves
\* the stored round request as it is, and a configuration change delivers
\* its config to the mailbox a second time.
C17_RedeliveryIdempotence ==
    [][\A h \in Handlers : \A g \in Handlers \ {h} :
          ActedNotMarked(g, handlers[h].log) =>
              /\ (handlers[h].pc = "merge" /\ handlers'[h].pc = "mark")
                    => latestRoundRequested' = latestRoundRequested
              /\ (/\ handlers[h].pc = "dispatch" /\ handlers'[h].pc = "mark"
                  /\ DispatchCase(handlers[h].log) = "deliver")
                    => /\ \E i \in 1..Len(delivered) :
                             delivered[i] = ContractConfig(handlers[h].log.ConfigDigest)
                       /\ delivered' = Append(delivered,
                                              ContractConfig(handlers[h].log.ConfigDigest))]_vars

\* C18: after the dispatch (delivery, merge, or an unrecognized topic)
\* HandleLog calls MarkConsumed. Whether it succeeds or fails, the mailbox,
\* the configs delivered and the stored round request stay as the invocation
\* left them; on success the log is marked, on failure it stays unmarked.
C18_MarkFailureNoRollback ==
    /\ [](\A h \in Handlers :
            (handlers[h].res \in {"marked", "markError"} /\ DispatchCase(handlers[h].log) = "deliver")
               => \E i \in 1..Len(delivered) :
                     delivered[i] = ContractConfig(handlers[h].log.ConfigDigest))
    /\ [][\A h \in Handlers :
            /\ (handlers[h].pc = "dispatch" /\ handlers'[h] # handlers[h]
                /\ DispatchCase(handlers[h].log) \in {"deliver", "mark"})
                  => handlers'[h].pc = "mark"
            /\ (handlers[h].pc = "merge" /\ handlers'[h] # handlers[h])
                  => handlers'[h].pc = "mark"
            /\ (handlers[h].pc = "mark" /\ handlers'[h] # handlers[h]) =>
                  /\ UNCHANGED <<configsMB, delivered, latestRoundRequested, lrrMu>>
                  /\ handlers'[h].pc = "idle"
                  /\ \/ /\ handlers'[h].res = "marked"
                        /\ consumed' = consumed \cup {handlers[h].log}
                     \/ /\ handlers'[h].res = "markError"
                        /\ consumed' = consumed
                        /\ handlers[h].log \notin consumed']_vars

\* a round request was accepted, MarkConsumed failed, and the stored round
\* request is still that of the unmarked log
C18_Witness ==
    \E h \in Handlers :
        /\ handlers[h].res = "markError"
        /\ handlers[h].pc = "idle"
        /\ DispatchCase(handlers[h].log) = "merge"
        /\ latestRoundRequested = ParseRoundRequested(handlers[h].log)
        /\ latestRoundRequested.Epoch = MaxEpoch
        /\ handlers[h].log \notin consumed

\* what a LatestRoundRequested call has read
Returned == [ConfigDigest |-> reader.ConfigDigest, Epoch |-> reader.Epoch,
             Round |-> reader.Round]

\* C19: LatestRoundRequested returns no error; what it returns is the
\* stored round request as it stands when the call gives up the read lock,
\* all three fields from it: zero values while no round request was handled,
\* otherwise the fields of one round request that HandleLog was handed.
C19_LatestRoundRequestedConsistent ==
    /\ [](~reader.err)
    /\ [](reader.pc = "unlock" => Returned = latestRoundRequested)
    /\ [](reader.returned =>
            \/ Returned = ZeroRoundRequested
            \/ \E l \in ReadLogs : Returned = ParseRoundRequested(l))
    /\ []((reader.returned /\ \A h \in Handlers : handlers[h] = IdleHandler)
            => Returned = ZeroRoundRequested)
    /\ [][reader.locked => latestRoundRequested' = latestRoundRequested]_vars

\* every log was handled and marked, and a call has returned the round
\* request stored last, that of the highest digest and epoch
C19_Witness ==
    /\ reader.returned
    /\ reader.pc = "idle"
    /\ Returned = latestRoundRequested
    /\ Returned.ConfigDigest = MaxDigest
    /\ Returned.Epoch = MaxEpoch
    /\ Returned.Round = MaxEpoch
    /\ broadcaster.budget = 0
    /\ Cardinality(consumed) = MaxLogCalls

Recognized(l) ==
    Len(l.Topics) > 0 /\ l.Topics[1] \in {OCRContractConfigSet, OCRContractLatestRoundRequested}

\* C20: an invocation that returns early (prior error, failed consumed
\* query, no topics, address mismatch, decode failure) changes neither the
\* marks, nor the mailbox, nor the stored round request, and only a log with
\* topics that, if of a recognized topic, is of the tracked address and
\* decodes gets as far as MarkConsumed; a log of an unrecognized topic, and a
\* round request rejected as stale, go on to MarkConsumed with no other
\* change, and are marked when it succeeds.
C20_WhichLogsMarked ==
    /\ [](\A h \in Handlers :
            (handlers[h].pc \in {"merge", "mark"} \/ handlers[h].res \in {"marked", "markError"})
               => /\ Len(handlers[h].log.Topics) > 0
                  /\ Recognized(handlers[h].log) =>
                        (handlers[h].log.Address = ContractAddress /\ handlers[h].log.parse))
    /\ [][\A h \in Handlers : handlers'[h] # handlers[h] =>
            /\ handlers'[h].res \in {"priorError", "queryError", "noTopics",
                                     "addressMismatch", "parseError"}
                  => /\ handlers'[h].pc = "idle"
                     /\ UNCHANGED <<consumed, configsMB, delivered, latestRoundRequested>>
            /\ (handlers[h].pc = "idle" /\ Len(handlers'[h].log.Topics) = 0)
                  => handlers'[h].pc = "idle" /\ handlers'[h].res # "none"
            /\ (handlers[h].pc = "dispatch" /\ Recognized(handlers[h].log)
                /\ (handlers[h].log.Address # ContractAddress \/ ~handlers[h].log.parse))
                  => /\ handlers'[h].pc = "idle"
                     /\ handlers'[h].res \in {"addressMismatch", "parseError"}
            /\ (handlers[h].pc = "dispatch" /\ ~Recognized(handlers[h].log))
                  => /\ handlers'[h].pc = "mark"
                     /\ UNCHANGED <<consumed, configsMB, delivered, latestRoundRequested>>
            /\ (/\ handlers[h].pc = "merge"
                /\ ~(/\ handlers[h].log.Epoch >= latestRoundRequested.Epoch
                     /\ handlers[h].log.Round >= latestRoundRequested.Round))
                  => /\ handlers'[h].pc = "mark"
                     /\ UNCHANGED <<consumed, configsMB, delivered, latestRoundRequested>>
            /\ (handlers[h].pc = "mark" /\ handlers'[h].res = "marked")
                  => /\ consumed' = consumed \cup {handlers[h].log}
                     /\ UNCHANGED <<configsMB, delivered, latestRoundRequested>>]_vars

\* a round request older than the stored one was rejected and marked
C20_Witness ==
    \E h \in Handlers :
        /\ handlers[h].res = "marked"
        /\ DispatchCase(handlers[h].log) = "merge"
        /\ handlers[h].log.Epoch < latestRoundRequested.Epoch
        /\ handlers[h].log \in consumed
        /\ delivered = <<>>

\* the config the loop holds for its pending send, if any
InFlight == IF loop.pc = "send" THEN <<loop.cc>> ELSE <<>>

\* C21: the configs sent to the consumer are, in order and one for one, the
\* first of those delivered to the mailbox; while the loop runs, the configs
\* sent, the one it holds and those pending are exactly the configs
\* delivered; each send adds one config; and with no stop signal a loop back
\* in its select with no notification pending has sent them all.
C21_ForwardingOrder ==
    /\ [](Len(sent) <= Len(delivered) /\ sent = SubSeq(delivered, 1, Len(sent)))
    /\ [](loop.pc \in {"select", "retrieve", "send"}
            => sent \o InFlight \o configsMB.queue = delivered)
    /\ []((loop.pc = "select" /\ ~configsMB.chNotify /\ chStop = "open")
            => sent = delivered)
    /\ [][sent' # sent => (loop.pc = "send" /\ sent' = Append(sent, loop.cc))]_vars

\* the stop signal ended the loop with the second of two different configs
\* not sent
C21_Witness ==
    /\ loop.pc = "done"
    /\ chStop = "closed"
    /\ Len(delivered) = 2
    /\ delivered[1] # delivered[2]
    /\ sent = <<delivered[1]>>

====
